---- MODULE Spec2Model ----
(***************************************************************************)
(* A model of the emu virtual machine: the CPU of src/src/cpu.rs (register *)
(* file, memory, program counter, load and the fetch-decode-execute loop   *)
(* of run) together with the adapter of src/src/ppu.rs that the loop calls *)
(* once per iteration (render, update_keys).                               *)
(*                                                                         *)
(* memory is the array [u8; 0xFFFF].  It is kept as the function from the  *)
(* addresses of its non-zero cells to their values: a cell outside the     *)
(* domain holds 0, and a write of 0 removes the address, so two equal      *)
(* arrays are equal functions.  buffer (the PPU's pixel vector) is kept    *)
(* the same way.                                                           *)
(***************************************************************************)
EXTENDS Integers, Sequences, FiniteSets, TLC

\* ------------------------------------------------------------ constants

\* registers: [u8; 4]
NUM_REGISTERS == 4

\* memory: [u8; 0xFFFF]: 65535 cells, addresses 0..65534
MEM_SIZE == 65535

\* load copies the program to 0x8000 and sets pc to it
PROGRAM_START == 32768

\* update_keys writes the key status to memory[0x0100]
KEY_STATUS_ADDR == 256

\* render reads the pixels from memory[0x0200 + i]
DISPLAY_START == 512

\* PPU::new: width * height = 32 * 32 pixels
DISPLAY_LEN == 1024

\* the bound that mem_read_next_for_register_index tests the operand against
REGISTER_CHECK_MAX == 4

\* the ranges of u8 and u16
U8_MODULUS == 256

U16_MODULUS == 65536

\* ------------------------------------------------------------ bounds

\* the calls of load in one behaviour
MaxLoads == 2

\* the calls of run in one behaviour
MaxRuns == 1

\* the loop iterations (opcode fetches) of one run
MaxFetch == 4

\* the loop iterations of a run of the program of main.rs: two passes of its
\* seven instructions and one more
MaxDemoFetch == 15

\* the loop iterations of a run of a short program: its instructions, the
\* fetch after the last one, and one more
MaxTermFetch == 6

VARIABLES
    registers,        \* CPU.registers, a function 0..3 -> 0..255
    memory,           \* CPU.memory, the non-zero cells
    pc,               \* CPU.pc, 0..65535
    buffer,           \* PPU.buffer, the non-zero pixels, by pixel index
    overflow_checks,  \* the build: TRUE when integer overflow panics (debug)
    phase,            \* where the program is: "idle", inside run ("render",
                      \* "update_keys", "fetch"), or ended ("returned",
                      \* "panicked", "exited")
    panic,            \* the message of the panic that ended the program
    opcode,           \* run's local: the opcode fetched last (-1: none)
    program,          \* the argument of the last load
    keys,             \* what get_keys_pressed returned to update_keys in this
                      \* iteration (NoKeys again once the instruction is done)
    escape,           \* what is_key_down(Escape) returned to the last render
    loads,            \* calls of load so far
    runs,             \* calls of run so far
    renders,          \* calls of render in this run
    polls,            \* calls of update_keys in this run
    fetches,          \* opcode fetches in this run
    last,             \* the operation that took the last step
    prev              \* registers, memory and pc before the last step

vars == <<registers, memory, pc, buffer, overflow_checks, phase, panic, opcode,
          program, keys, escape, loads, runs, renders, polls, fetches, last, prev>>

\* ------------------------------------------------------------ panics

NoPanic == "none"

\* panic!("Invalid register: {}", ...) of mem_read_next_for_register_index
PanicInvalidRegister == "Invalid register"

\* the bounds check of self.registers[i]
PanicRegisterBounds == "index out of bounds: the len is 4"

\* the bounds check of self.memory[addr as usize]
PanicMemoryBounds == "index out of bounds: the len is 65535"

\* the overflow check of +=, -= and + in a build with overflow checks
PanicOverflow == "attempt to add or subtract with overflow"

\* unimplemented!() of run's default arm
PanicUnimplemented == "not implemented"

\* the bounds check of the slice self.memory[0x8000..(0x8000 + len)] in load
PanicSliceBounds == "range end index out of range for slice of length 65535"

\* ------------------------------------------------------------ memory cells

EmptyCells == [a \in {} |-> 0]

\* the value of cell a of the array kept as m
Cell(m, a) == IF a \in DOMAIN m THEN m[a] ELSE 0

\* the array kept as m with cell a set to d
Put(m, a, d) ==
    IF d = 0
    THEN [x \in (DOMAIN m) \ {a} |-> m[x]]
    ELSE [x \in (DOMAIN m) \cup {a} |-> IF x = a THEN d ELSE m[x]]

\* CopyFromSlice with a bug: the last byte of the program is not copied
CopyFromSliceShort(m, P) ==
    LET lo == PROGRAM_START
        hi == PROGRAM_START + Len(P) - 1
        set == {a \in lo..(hi - 1) : P[a - lo + 1] # 0}
        keep == {a \in DOMAIN m : a < lo \/ a >= hi}
    IN [a \in keep \cup set |-> IF a \in set THEN P[a - lo + 1] ELSE m[a]]

\* self.memory[0x8000..(0x8000 + program.len())].copy_from_slice(&program[..])
CopyFromSlice(m, P) ==
    LET lo == PROGRAM_START
        hi == PROGRAM_START + Len(P)
        set == {a \in lo..(hi - 1) : P[a - lo + 1] # 0}
        keep == {a \in DOMAIN m : a < lo \/ a >= hi}
    IN [a \in keep \cup set |-> IF a \in set THEN P[a - lo + 1] ELSE m[a]]

\* ------------------------------------------------------------ the CPU inside one instruction
\* A CPU value c is a record: registers, memory, pc, panic (NoPanic while the
\* instruction is still executing) and halted (run has returned).  Each
\* primitive below leaves a CPU that has already panicked as it is, which is
\* how the panic skips the rest of the handler.  A primitive that reads
\* returns the record [c |-> the CPU after it, v |-> the value read].

Cpu == [registers |-> registers, memory |-> memory, pc |-> pc,
        panic |-> NoPanic, halted |-> FALSE]

Ok(c) == c.panic = NoPanic

Fail(c, msg) == IF Ok(c) THEN [c EXCEPT !.panic = msg] ELSE c

\* self.pc += n and pos + 1 on u16: past 65535 the build decides, a panic with
\* overflow checks and a wrap without
SetPcPlus(c, n) ==
    IF ~Ok(c) THEN c
    ELSE IF c.pc + n >= U16_MODULUS
    THEN IF overflow_checks
         THEN Fail(c, PanicOverflow)
         ELSE [c EXCEPT !.pc = (c.pc + n) % U16_MODULUS]
    ELSE [c EXCEPT !.pc = c.pc + n]

\* fn mem_read(&self, addr: u16) -> u8
mem_read(c, addr) ==
    IF ~Ok(c) THEN [c |-> c, v |-> 0]
    ELSE IF addr >= MEM_SIZE THEN [c |-> Fail(c, PanicMemoryBounds), v |-> 0]
    ELSE [c |-> c, v |-> Cell(c.memory, addr)]

\* fn mem_write(&mut self, addr: u16, data: u8)
mem_write(c, addr, data) ==
    IF ~Ok(c) THEN c
    ELSE IF addr >= MEM_SIZE THEN Fail(c, PanicMemoryBounds)
    ELSE [c EXCEPT !.memory = Put(c.memory, addr, data)]

\* fn mem_read_next(&mut self) -> u8
mem_read_next(c) ==
    LET r == mem_read(c, c.pc)
    IN [c |-> SetPcPlus(r.c, 1), v |-> r.v]

\* fn mem_read_next_as_usize(&mut self) -> usize
mem_read_next_as_usize(c) == mem_read_next(c)

\* mem_read_next_for_register_index with a bug: an operand above the bound is
\* reduced to a register index instead of ending the run
mem_read_next_for_register_index_masked(c) ==
    LET r == mem_read_next_as_usize(c)
    IN [c |-> r.c, v |-> r.v % NUM_REGISTERS]

\* fn mem_read_next_for_register_index(&mut self) -> usize
mem_read_next_for_register_index(c) ==
    LET r == mem_read(c, c.pc)
    IN IF ~Ok(r.c) THEN r
       ELSE IF r.v <= REGISTER_CHECK_MAX THEN mem_read_next_as_usize(c)
       ELSE [c |-> Fail(c, PanicInvalidRegister), v |-> r.v]

\* mem_read_u16_be with a bug: the second byte is taken as the high one, as in
\* mem_read_u16
mem_read_u16_le(c, pos) ==
    LET lo == mem_read(c, pos)
        over == Ok(lo.c) /\ pos + 1 >= U16_MODULUS
        c1 == IF over /\ overflow_checks THEN Fail(lo.c, PanicOverflow) ELSE lo.c
        hi == mem_read(c1, (pos + 1) % U16_MODULUS)
    IN [c |-> hi.c, v |-> hi.v * 256 + lo.v]

\* fn mem_read_u16_be(&self, pos: u16) -> u16
mem_read_u16_be(c, pos) ==
    LET lo == mem_read(c, pos)
        \* pos + 1 is a u16 addition
        over == Ok(lo.c) /\ pos + 1 >= U16_MODULUS
        c1 == IF over /\ overflow_checks THEN Fail(lo.c, PanicOverflow) ELSE lo.c
        hi == mem_read(c1, (pos + 1) % U16_MODULUS)
    IN [c |-> hi.c, v |-> lo.v * 256 + hi.v]

\* mem_read_u16_be_next with a bug: pc advances by 1, as in mem_read_u16_next
mem_read_u16_be_next_by_one(c) ==
    LET r == mem_read_u16_be(c, c.pc)
    IN [c |-> SetPcPlus(r.c, 1), v |-> r.v]

\* fn mem_read_u16_be_next(&mut self) -> u16
mem_read_u16_be_next(c) ==
    LET r == mem_read_u16_be(c, c.pc)
    IN [c |-> SetPcPlus(r.c, 2), v |-> r.v]

\* the read self.registers[i]
reg_read(c, i) ==
    IF ~Ok(c) THEN [c |-> c, v |-> 0]
    ELSE IF i >= NUM_REGISTERS THEN [c |-> Fail(c, PanicRegisterBounds), v |-> 0]
    ELSE [c |-> c, v |-> c.registers[i]]

\* the write self.registers[i] = v
reg_write(c, i, v) ==
    IF ~Ok(c) THEN c
    ELSE IF i >= NUM_REGISTERS THEN Fail(c, PanicRegisterBounds)
    ELSE [c EXCEPT !.registers[i] = v]

\* u8::from(b)
u8_from(b) == IF b THEN 1 ELSE 0

\* wrapping_add with a bug: the sum stops at 255
saturating_add(a, b) == IF a + b >= U8_MODULUS THEN U8_MODULUS - 1 ELSE a + b

\* a.wrapping_add(b) and a.wrapping_sub(b) on u8
wrapping_add(a, b) == (a + b) % U8_MODULUS

wrapping_sub(a, b) == (a - b + U8_MODULUS) % U8_MODULUS

\* ------------------------------------------------------------ the opcode handlers of run
\* Each takes the CPU after the opcode fetch (pc past the opcode byte) and
\* gives the CPU after the handler.

\* Halt with a bug: the arm does not return
HaltFallsThrough(c) == c

\* 0x00 => return
Halt(c) == [c EXCEPT !.halted = TRUE]

\* Nop with a bug: pc is put back onto the NOP byte
NopRefetched(c) == [c EXCEPT !.pc = c.pc - 1]

\* 0xFF => ()
Nop(c) == c

\* LoadValue with a bug: the operands are taken in the other order
LoadValueSwapped(c) ==
    LET value == mem_read_next(c)
        reg_index == mem_read_next_for_register_index(value.c)
    IN reg_write(reg_index.c, reg_index.v, value.v)

\* 0x10: load value into register
LoadValue(c) ==
    LET reg_index == mem_read_next_for_register_index(c)
        value == mem_read_next(reg_index.c)
    IN reg_write(value.c, reg_index.v, value.v)

\* LoadRegister with a bug: the copy goes from the first operand to the second
LoadRegisterReversed(c) ==
    LET reg_index == mem_read_next_for_register_index(c)
        src == mem_read_next_as_usize(reg_index.c)
        content == reg_read(src.c, reg_index.v)
    IN reg_write(content.c, src.v, content.v)

\* 0x11: load from another register; the source operand is read with
\* mem_read_next_as_usize, without the register check
LoadRegister(c) ==
    LET reg_index == mem_read_next_for_register_index(c)
        src == mem_read_next_as_usize(reg_index.c)
        content == reg_read(src.c, src.v)
    IN reg_write(content.c, reg_index.v, content.v)

\* 0x12: load to a register from memory
LoadMemory(c) ==
    LET reg_index == mem_read_next_for_register_index(c)
        address == mem_read_u16_be_next(reg_index.c)
        data == mem_read(address.c, address.v)
    IN reg_write(data.c, reg_index.v, data.v)

\* 0x20: store 8 bits to a region in memory from a register
StoreMemory(c) ==
    LET address == mem_read_u16_be_next(c)
        reg_index == mem_read_next_for_register_index(address.c)
        data == reg_read(reg_index.c, reg_index.v)
    IN mem_write(data.c, address.v, data.v)

\* self.registers[self.mem_read_next_for_register_index()] as a value
reg_operand(c) ==
    LET reg_index == mem_read_next_for_register_index(c)
    IN reg_read(reg_index.c, reg_index.v)

\* self.registers[self.mem_read_next_for_register_index()] = v
reg_result(c, v) ==
    LET reg_index == mem_read_next_for_register_index(c)
    IN reg_write(reg_index.c, reg_index.v, v)

\* 0x30: compare $A == $B storing the result in $C
CompareEq(c) ==
    LET reg1 == reg_operand(c)
        reg2 == reg_operand(reg1.c)
    IN reg_result(reg2.c, u8_from(reg1.v = reg2.v))

\* 0x31: compare $A == 0xB and store the result in $C
CompareEqValue(c) ==
    LET reg == reg_operand(c)
        value == mem_read(reg.c, reg.c.pc)
        c1 == SetPcPlus(value.c, 1)
    IN reg_result(c1, u8_from(reg.v = value.v))

\* 0x32: compare $A > $B storing the result in $C
CompareGt(c) ==
    LET reg1 == reg_operand(c)
        reg2 == reg_operand(reg1.c)
    IN reg_result(reg2.c, u8_from(reg1.v > reg2.v))

\* CompareLt with a bug: the second operand is a literal, as the source
\* comment has it
CompareLtValue(c) ==
    LET reg == reg_operand(c)
        value == mem_read_next(reg.c)
    IN reg_result(value.c, u8_from(reg.v < value.v))

\* 0x33: both operands are registers (the source comment says $A < 0xB)
CompareLt(c) ==
    LET reg1 == reg_operand(c)
        reg2 == reg_operand(reg1.c)
    IN reg_result(reg2.c, u8_from(reg1.v < reg2.v))

\* JumpIf with a bug: the jump is never taken
JumpIfFallsThrough(c) ==
    LET reg == reg_operand(c)
        target == mem_read_u16_be(reg.c, reg.c.pc)
    IN SetPcPlus(target.c, 2)

\* JumpIf with a bug: every non-zero register counts as true
JumpIfNonZero(c) ==
    LET reg == reg_operand(c)
        target == mem_read_u16_be(reg.c, reg.c.pc)
    IN IF ~Ok(target.c) THEN target.c
       ELSE IF reg.v # 0 THEN [target.c EXCEPT !.pc = target.v]
       ELSE SetPcPlus(target.c, 2)

\* 0x40: if $A is true, jump to 0xB in the program counter
JumpIf(c) ==
    LET reg == reg_operand(c)
        target == mem_read_u16_be(reg.c, reg.c.pc)
    IN IF ~Ok(target.c) THEN target.c
       ELSE IF reg.v = 1 THEN [target.c EXCEPT !.pc = target.v]
       ELSE SetPcPlus(target.c, 2)

\* self.registers[i] += 1 on u8: at 255 the build decides
reg_add_assign(c, i) ==
    LET old == reg_read(c, i)
    IN IF ~Ok(old.c) THEN old.c
       ELSE IF old.v + 1 >= U8_MODULUS
       THEN IF overflow_checks
            THEN Fail(old.c, PanicOverflow)
            ELSE reg_write(old.c, i, (old.v + 1) % U8_MODULUS)
       ELSE reg_write(old.c, i, old.v + 1)

\* self.registers[i] -= 1 on u8: at 0 the build decides
reg_sub_assign(c, i) ==
    LET old == reg_read(c, i)
    IN IF ~Ok(old.c) THEN old.c
       ELSE IF old.v - 1 < 0
       THEN IF overflow_checks
            THEN Fail(old.c, PanicOverflow)
            ELSE reg_write(old.c, i, (old.v - 1 + U8_MODULUS) % U8_MODULUS)
       ELSE reg_write(old.c, i, old.v - 1)

\* 0x50: increment $A
Increment(c) ==
    LET reg_index == mem_read_next_for_register_index(c)
    IN reg_add_assign(reg_index.c, reg_index.v)

\* 0x51: decrement $A
Decrement(c) ==
    LET reg_index == mem_read_next_for_register_index(c)
    IN reg_sub_assign(reg_index.c, reg_index.v)

\* 0x52: perform $A + $B and store the result in $C
AddRegs(c) ==
    LET reg1_index == mem_read_next_for_register_index(c)
        reg2_index == mem_read_next_for_register_index(reg1_index.c)
        reg3_index == mem_read_next_for_register_index(reg2_index.c)
        a == reg_read(reg3_index.c, reg1_index.v)
        b == reg_read(a.c, reg2_index.v)
    IN reg_write(b.c, reg3_index.v, wrapping_add(a.v, b.v))

\* 0x53: perform $A - $B and store the result in $C
SubRegs(c) ==
    LET reg1_index == mem_read_next_for_register_index(c)
        reg2_index == mem_read_next_for_register_index(reg1_index.c)
        reg3_index == mem_read_next_for_register_index(reg2_index.c)
        a == reg_read(reg3_index.c, reg1_index.v)
        b == reg_read(a.c, reg2_index.v)
    IN reg_write(b.c, reg3_index.v, wrapping_sub(a.v, b.v))

\* 0x54: perform $A + 0xB and store the result in $C
AddValue(c) ==
    LET reg1_index == mem_read_next_for_register_index(c)
        val2 == mem_read_next(reg1_index.c)
        reg3_index == mem_read_next_for_register_index(val2.c)
        a == reg_read(reg3_index.c, reg1_index.v)
    IN reg_write(a.c, reg3_index.v, wrapping_add(a.v, val2.v))

\* 0x55: perform $A - 0xB and store the result in $C
SubValue(c) ==
    LET reg1_index == mem_read_next_for_register_index(c)
        val2 == mem_read_next(reg1_index.c)
        reg3_index == mem_read_next_for_register_index(val2.c)
        a == reg_read(reg3_index.c, reg1_index.v)
    IN reg_write(a.c, reg3_index.v, wrapping_sub(a.v, val2.v))

\* the default arm with a bug: an unknown opcode is skipped
UnimplementedSkipped(c) == c

\* _ => unimplemented!()
Unimplemented(c) == Fail(c, PanicUnimplemented)

\* match opcode { ... }
Execute(op, c) ==
    CASE op = 0   -> Halt(c)
      [] op = 255 -> Nop(c)
      [] op = 16  -> LoadValue(c)
      [] op = 17  -> LoadRegister(c)
      [] op = 18  -> LoadMemory(c)
      [] op = 32  -> StoreMemory(c)
      [] op = 48  -> CompareEq(c)
      [] op = 49  -> CompareEqValue(c)
      [] op = 50  -> CompareGt(c)
      [] op = 51  -> CompareLt(c)
      [] op = 64  -> JumpIf(c)
      [] op = 80  -> Increment(c)
      [] op = 81  -> Decrement(c)
      [] op = 82  -> AddRegs(c)
      [] op = 83  -> SubRegs(c)
      [] op = 84  -> AddValue(c)
      [] op = 85  -> SubValue(c)
      [] OTHER    -> Unimplemented(c)

\* one pass of the loop body from the fetch on:
\* let opcode = self.mem_read(self.pc); self.pc += 1; match opcode { ... }
FetchExecute(c) ==
    LET fetched == mem_read(c, c.pc)
    IN Execute(fetched.v, SetPcPlus(fetched.c, 1))

\* ------------------------------------------------------------ the adapter (ppu.rs)

\* get_keys_pressed gives an Option<Vec<Key>>
NoKeys == [some |-> FALSE, list |-> <<>>]

SomeKeys(list) == [some |-> TRUE, list |-> list]

\* match t { Key::W => 1, Key::A => 2, Key::S => 3, Key::D => 4, _ => 0 }
KeyStatus(t) ==
    CASE t = "W" -> 1
      [] t = "A" -> 2
      [] t = "S" -> 3
      [] t = "D" -> 4
      [] OTHER   -> 0

\* for t in keys { memory[0x0100] = ... }: every key writes, the last one stays
RECURSIVE WriteKeys(_, _)
WriteKeys(m, list) ==
    IF list = <<>> THEN m
    ELSE WriteKeys(Put(m, KEY_STATUS_ADDR, KeyStatus(Head(list))), Tail(list))

\* update_keys with a bug: the keys are written into a fresh array, which
\* replaces the CPU's memory
update_keys_fresh(m, k) == IF k.some THEN WriteKeys(EmptyCells, k.list) ELSE m

\* pub fn update_keys(&self, mut memory) -> memory: keys.map(|keys| ...) does
\* nothing on None
update_keys(m, k) == IF k.some THEN WriteKeys(m, k.list) ELSE m

\* (memory[0x0200 + i] as u32).pow(4): 255^4 is below 2^32, so the power never
\* overflows the u32.  The u32 is kept as its two 16-bit halves.
Pixel(b) ==
    LET cube == b * b * b
        q == cube \div U16_MODULUS
        r == cube % U16_MODULUS
    IN [hi |-> q * b + ((r * b) \div U16_MODULUS), lo |-> (r * b) % U16_MODULUS]

\* the first loop of render: *j = (memory[0x0200 + i] as u32).pow(4)
RenderBuffer(m) ==
    LET lit == {a \in DOMAIN m : a >= DISPLAY_START /\ a < DISPLAY_START + DISPLAY_LEN}
    IN [i \in {a - DISPLAY_START : a \in lit} |-> Pixel(m[i + DISPLAY_START])]

\* ------------------------------------------------------------ inputs

\* the register operand bytes tried: the four indices, and 4, 5 and 255
ValidRegs == 0..3

BadRegs == {4, 5, 255}

RegBytes == ValidRegs \cup BadRegs

\* the literal operand bytes tried
ValueBytes == {0, 1, 5, 255}

\* the address operands tried, as <<first byte, second byte>>: 0x0100, 0x00AB,
\* 0x8000, 0xFFFE and 0xFFFF
AddressBytes == {<<1, 0>>, <<0, 171>>, <<128, 0>>, <<255, 254>>, <<255, 255>>}

\* three register operands: all valid ones, and one bad byte in each place
RegTriples ==
    {<<a, b, d>> : a \in ValidRegs, b \in ValidRegs, d \in ValidRegs}
    \cup {<<x, b, d>> : x \in BadRegs, b \in {0, 3}, d \in {0, 3}}
    \cup {<<a, x, d>> : a \in {0, 3}, x \in BadRegs, d \in {0, 3}}
    \cup {<<a, b, x>> : a \in {0, 3}, b \in {0, 3}, x \in BadRegs}

\* register, literal, register
RegValueRegs ==
    {<<a, v, d>> : a \in ValidRegs, v \in ValueBytes, d \in ValidRegs}
    \cup {<<x, v, d>> : x \in BadRegs, v \in {1, 255}, d \in {0, 3}}
    \cup {<<a, v, x>> : a \in {0, 3}, v \in {1, 255}, x \in BadRegs}

\* the one-instruction programs; the memory after them is zero, so a run that
\* gets past the instruction fetches HALT next
OneInstruction ==
    {<<op>> : op \in {0, 255, 1, 19, 254}}
    \cup {<<op, r>> : op \in {80, 81}, r \in RegBytes}
    \cup {<<16, r, v>> : r \in RegBytes, v \in ValueBytes}
    \cup {<<17, d, r>> : d \in RegBytes, r \in RegBytes}
    \cup {<<op, r, a[1], a[2]>> : op \in {18, 64}, r \in RegBytes, a \in AddressBytes}
    \cup {<<32, a[1], a[2], r>> : r \in RegBytes, a \in AddressBytes}
    \cup {<<op>> \o t : op \in {48, 50, 51, 82, 83}, t \in RegTriples}
    \cup {<<op>> \o t : op \in {49, 84, 85}, t \in RegValueRegs}

\* the program of main.rs
DemoProgram ==
    <<16, 0, 255,  255,  32, 2, 0, 0,  255,  32, 5, 255, 0,  16, 1, 1,
      64, 1, 128, 0,  255,  0>>

\* programs of several instructions: the demo, the jump tests of cpu.rs, a
\* store followed by a load of the same address, a NOP stored into the last
\* cell and jumped to, and a store to the key status address that is read back
SeveralInstructions ==
    { DemoProgram,
      <<64, 0, 128, 5, 0, 0>>,
      <<16, 2, 7,  32, 0, 171, 2,  18, 3, 0, 171,  0>>,
      <<16, 0, 255,  32, 255, 254, 0,  16, 1, 1,  64, 1, 255, 254>>,
      <<16, 0, 9,  32, 1, 0, 0,  18, 1, 1, 0,  0>> }

\* a program one byte longer than the room from 0x8000 to the end of memory,
\* and one that fills it exactly
TooLargeProgram == [i \in 1..(MEM_SIZE - PROGRAM_START + 1) |-> 0]

ExactFitProgram ==
    [i \in 1..(MEM_SIZE - PROGRAM_START) |-> IF i = 1 THEN 255 ELSE 0]

Programs ==
    OneInstruction \cup SeveralInstructions \cup {TooLargeProgram, ExactFitProgram}

\* the programs loaded over an earlier one, after its run has returned
ReloadPrograms == {<<80, 1, 0>>}

\* the register files the tests of cpu.rs write before load, as in
\* cpu.registers[0] = 255
RegFiles ==
    { [r \in 0..3 |-> 255],
      [r \in 0..3 |-> <<1, 5, 100, 100>>[r + 1]] }

\* what the window reports to one update_keys
KeyInputs ==
    { NoKeys, SomeKeys(<<>>), SomeKeys(<<"W", "A", "S", "D">>),
      SomeKeys(<<"D", "Space">>) }

\* ------------------------------------------------------------ the program

Snapshot == [registers |-> registers, memory |-> memory, pc |-> pc]

\* CPU::new() and PPU::new(), in a build with or without overflow checks
Init ==
    /\ registers = [r \in 0..(NUM_REGISTERS - 1) |-> 0]
    /\ memory = EmptyCells
    /\ pc = 0
    /\ buffer = EmptyCells
    /\ overflow_checks \in BOOLEAN
    /\ phase = "idle"
    /\ panic = NoPanic
    /\ opcode = -1
    /\ program = <<>>
    /\ keys = NoKeys
    /\ escape = FALSE
    /\ loads = 0
    /\ runs = 0
    /\ renders = 0
    /\ polls = 0
    /\ fetches = 0
    /\ last = "new"
    /\ prev = [registers |-> [r \in 0..(NUM_REGISTERS - 1) |-> 0],
               memory |-> EmptyCells, pc |-> 0]

\* the caller writes the public field: cpu.registers[i] = v, before load
WriteRegisters(rf) ==
    /\ phase = "idle"
    /\ last = "new"
    /\ registers' = rf
    /\ last' = "write_registers"
    /\ prev' = Snapshot
    /\ UNCHANGED <<memory, pc, buffer, overflow_checks, phase, panic, opcode,
                   program, keys, escape, loads, runs, renders, polls, fetches>>

\* pub fn load(&mut self, program: Vec<u8>), on a new CPU or after run returned
load(P) ==
    /\ \/ phase = "idle" /\ loads = 0
       \/ phase = "returned"
    /\ loads < MaxLoads
    /\ loads' = loads + 1
    /\ program' = P
    /\ last' = "load"
    /\ prev' = Snapshot
    /\ IF PROGRAM_START + Len(P) > MEM_SIZE
       THEN /\ phase' = "panicked"
            /\ panic' = PanicSliceBounds
            /\ UNCHANGED <<memory, pc>>
       ELSE /\ memory' = CopyFromSlice(memory, P)
            /\ pc' = PROGRAM_START
            /\ phase' = "idle"
            /\ UNCHANGED panic
    /\ UNCHANGED <<registers, buffer, overflow_checks, opcode, keys, escape,
                   runs, renders, polls, fetches>>

Load == \E P \in (IF loads = 0 THEN Programs ELSE ReloadPrograms) : load(P)

\* pub fn run(&mut self): the call, up to the head of the loop
Run ==
    /\ phase \in {"idle", "returned"}
    /\ runs < MaxRuns
    /\ runs' = runs + 1
    /\ phase' = "render"
    /\ renders' = 0
    /\ polls' = 0
    /\ fetches' = 0
    /\ last' = "run"
    /\ prev' = Snapshot
    /\ UNCHANGED <<registers, memory, pc, buffer, overflow_checks, panic, opcode,
                   program, keys, escape, loads>>

\* self.ppu.render(self.memory): the buffer is filled, then Escape ends the
\* process with exit(0), and otherwise the window is updated
render_within(esc, bound) ==
    /\ phase = "render"
    /\ fetches < bound
    /\ buffer' = RenderBuffer(memory)
    /\ escape' = esc
    /\ renders' = renders + 1
    /\ phase' = IF esc THEN "exited" ELSE "update_keys"
    /\ last' = "render"
    /\ prev' = Snapshot
    /\ UNCHANGED <<registers, memory, pc, overflow_checks, panic, opcode,
                   program, keys, loads, runs, polls, fetches>>

\* render with a bug: the loop goes from render straight to the fetch
render_skipping_poll(esc) ==
    /\ phase = "render"
    /\ fetches < MaxFetch
    /\ buffer' = RenderBuffer(memory)
    /\ escape' = esc
    /\ renders' = renders + 1
    /\ phase' = IF esc THEN "exited" ELSE "fetch"
    /\ last' = "render"
    /\ prev' = Snapshot
    /\ UNCHANGED <<registers, memory, pc, overflow_checks, panic, opcode,
                   program, keys, loads, runs, polls, fetches>>

\* the call of render in an iteration of a run of at most MaxFetch iterations
render(esc) == render_within(esc, MaxFetch)

Render == \E esc \in BOOLEAN : render(esc)

\* self.memory = self.ppu.update_keys(self.memory)
UpdateKeys ==
    \E k \in KeyInputs :
        /\ phase = "update_keys"
        /\ memory' = update_keys(memory, k)
        /\ keys' = k
        /\ polls' = polls + 1
        /\ phase' = "fetch"
        /\ last' = "update_keys"
        /\ prev' = Snapshot
        /\ UNCHANGED <<registers, pc, buffer, overflow_checks, panic, opcode,
                       program, escape, loads, runs, renders, fetches>>

\* the rest of the loop body: the fetch and the match on the opcode
Step ==
    /\ phase = "fetch"
    /\ LET c == FetchExecute(Cpu)
       IN /\ registers' = c.registers
          /\ memory' = c.memory
          /\ pc' = c.pc
          /\ panic' = c.panic
          /\ phase' = IF ~Ok(c) THEN "panicked"
                      ELSE IF c.halted THEN "returned"
                      ELSE "render"
    /\ opcode' = IF pc < MEM_SIZE THEN Cell(memory, pc) ELSE -1
    /\ keys' = NoKeys
    /\ fetches' = fetches + 1
    /\ last' = "step"
    /\ prev' = Snapshot
    /\ UNCHANGED <<buffer, overflow_checks, program, escape, loads, runs,
                   renders, polls>>

WriteAnyRegisters == \E rf \in RegFiles : WriteRegisters(rf)

Next == WriteAnyRegisters \/ Load \/ Run \/ Render \/ UpdateKeys \/ Step

Spec == Init /\ [][Next]_vars

\* main: a new CPU, load of the program of main.rs, run
LoadDemo == load(DemoProgram)

RenderDemo == \E esc \in BOOLEAN : render_within(esc, MaxDemoFetch)

NextDemo == LoadDemo \/ Run \/ RenderDemo \/ UpdateKeys \/ Step

SpecDemo == Init /\ [][NextDemo]_vars

\* short programs: a HALT; programs that do not end in HALT (NOPs, a DEC of a
\* zero register, an INC of register 4, a JUMP_IF on a register holding 0);
\* a store of a NOP and of the unknown opcode 0x99 into the cell after the
\* program; a loop that JUMP_IF closes; and the NOP stored into the last cell
\* of memory and jumped to
TermPrograms ==
    { <<0>>,
      <<255, 255>>,
      <<81, 0>>,
      <<80, 4>>,
      <<64, 0, 128, 0,  255>>,
      <<16, 0, 255,  32, 128, 7, 0>>,
      <<16, 0, 153,  32, 128, 7, 0>>,
      <<16, 1, 1,  64, 1, 128, 0>>,
      <<16, 0, 255,  32, 255, 254, 0,  16, 1, 1,  64, 1, 255, 254>> }

\* a caller that loads a short program and calls run
LoadTerm == \E P \in TermPrograms : load(P)

RenderTerm == \E esc \in BOOLEAN : render_within(esc, MaxTermFetch)

NextTerm == LoadTerm \/ Run \/ RenderTerm \/ UpdateKeys \/ Step

\* the fetch and the match have been run: the loop is back at its head, or
\* run has returned, or the thread has panicked. Step is the only action that
\* can be taken at the fetch, and it always leaves it.
StepLeavesFetch ==
    /\ phase = "fetch"
    /\ phase' \in {"render", "returned", "panicked"}

\* run is a blocking call on one thread: once it is called, each part of the
\* loop body that can run does run
SpecTerm ==
    /\ Init
    /\ [][NextTerm]_vars
    /\ WF_vars(RenderTerm)
    /\ WF_vars(UpdateKeys)
    /\ WF_phase(StepLeavesFetch)

\* ------------------------------------------------------------ the claims
\* A claim about one instruction is stated on the state after Step:
\* last = "step", opcode is the opcode fetched, and prev holds the registers,
\* the memory and the pc (the address of the opcode) at the fetch.

Stepped == last = "step" /\ prev.pc < MEM_SIZE

\* the operand byte k places after the opcode, at the fetch
Operand(k) == Cell(prev.memory, prev.pc + k)

\* the instruction set's table: the places of the register-index operands
RegisterFields(op) ==
    CASE op \in {16, 18, 64, 80, 81}     -> {1}
      [] op = 17                         -> {1, 2}
      [] op = 32                         -> {3}
      [] op \in {49, 84, 85}             -> {1, 3}
      [] op \in {48, 50, 51, 82, 83}     -> {1, 2, 3}
      [] OTHER                           -> {}

KnownOpcodes == {0, 255, 16, 17, 18, 32, 48, 49, 50, 51, 64, 80, 81, 82, 83, 84, 85}

\* the instruction executed last has a register-index operand outside 0..3
BadRegisterOperand ==
    /\ Stepped
    /\ \E k \in RegisterFields(opcode) :
           prev.pc + k < MEM_SIZE /\ Operand(k) \notin 0..(NUM_REGISTERS - 1)

\* C1 (as claimed): an instruction with a register-index operand outside 0..3,
\* the byte 4 included, ends the run in the InvalidRegisterIndex failure, with
\* no register touched.
C1_InvalidRegisterIndexRaised ==
    BadRegisterOperand =>
        /\ phase = "panicked"
        /\ panic = PanicInvalidRegister
        /\ registers = prev.registers

\* C2: JUMP_IF with a valid condition register and its target bytes in memory
\* sets pc to first byte * 256 + second byte when the register holds 1, and
\* to the opcode's address + 4 for every other value; registers and memory
\* stay as they were and the run goes on.
C2_JumpIf ==
    (Stepped /\ opcode = 64 /\ prev.pc + 3 < MEM_SIZE
        /\ Operand(1) \in 0..(NUM_REGISTERS - 1)) =>
        /\ phase = "render"
        /\ pc = IF prev.registers[Operand(1)] = 1
                THEN Operand(2) * 256 + Operand(3)
                ELSE prev.pc + 4
        /\ registers = prev.registers
        /\ memory = prev.memory

\* C2's case: a JUMP_IF on a register holding 255 was not taken.
C2_Witness ==
    /\ Stepped /\ opcode = 64 /\ Operand(1) \in 0..3
    /\ prev.registers[Operand(1)] = 255
    /\ pc = prev.pc + 4

\* C3 (as claimed): INC and DEC of a valid register wrap modulo 256 and the
\* run goes on.
C3_IncDecWrap ==
    (Stepped /\ opcode \in {80, 81} /\ prev.pc + 1 < MEM_SIZE
        /\ Operand(1) \in 0..(NUM_REGISTERS - 1)) =>
        /\ phase = "render"
        /\ registers = [prev.registers EXCEPT ![Operand(1)] =
               IF opcode = 80 THEN (@ + 1) % 256 ELSE (@ + 255) % 256]

\* C4: an instruction with a register-index operand outside 0..3, in any
\* place, ends the run with the registers and the memory as they were at the
\* fetch of its opcode.
C4_NoSideEffectOnBadRegister ==
    BadRegisterOperand =>
        /\ phase = "panicked"
        /\ registers = prev.registers
        /\ memory = prev.memory

\* C4's case: a compare whose third operand, the destination, is the bad one,
\* after two valid operands.
C4_Witness ==
    /\ BadRegisterOperand
    /\ opcode = 48
    /\ Operand(1) \in 0..3 /\ Operand(2) \in 0..3 /\ Operand(3) = 5
    /\ phase = "panicked"

\* C5 (as claimed): pc stays within 0..65534.
C5_PcInMemory == pc >= 0 /\ pc < MEM_SIZE

\* C6: HALT ends the run with a return, and the registers and the memory at
\* the return are those at the fetch of the HALT.
C6_Halt ==
    (Stepped /\ opcode = 0) =>
        /\ phase = "returned"
        /\ panic = NoPanic
        /\ registers = prev.registers
        /\ memory = prev.memory

\* C6's case: run has returned from a HALT with a register and the key status
\* cell set.
C6_Witness ==
    /\ Stepped /\ opcode = 0 /\ phase = "returned"
    /\ registers[0] # 0
    /\ Cell(memory, KEY_STATUS_ADDR) # 0
    /\ fetches > 1

\* the status of what the window reported: that of the last key, and none
\* ("no event") when there was no key
ReportedNothing == ~keys.some \/ keys.list = <<>>

\* C7 (as claimed): after the input poll memory[0x0100] holds the reported
\* status, and 0 when nothing was reported.
C7_KeyStatusWritten ==
    (last = "update_keys") =>
        Cell(memory, KEY_STATUS_ADDR) =
            IF ReportedNothing THEN 0 ELSE KeyStatus(keys.list[Len(keys.list)])

\* the phase of a run that handed a cancellation back to its caller; the
\* program has no such outcome
AdapterCancelled == "cancelled"

\* C8 (as claimed): when Escape is down the run ends by returning the
\* AdapterCancelled outcome to its caller.
C8_CooperativeCancel ==
    (last = "render" /\ escape) => phase = AdapterCancelled

\* C9: an opcode outside the instruction set ends the run in the
\* unimplemented!() panic, which is not the return of HALT, with the
\* registers and the memory as they were at the fetch.
C9_UnknownOpcode ==
    (Stepped /\ opcode \notin KnownOpcodes) =>
        /\ phase = "panicked"
        /\ panic = PanicUnimplemented
        /\ registers = prev.registers
        /\ memory = prev.memory

\* C9's case: the unknown opcode 0x13 was fetched with registers set.
C9_Witness ==
    /\ Stepped /\ opcode = 19
    /\ registers[1] = 5
    /\ phase = "panicked"

Fits(P) == PROGRAM_START + Len(P) <= MEM_SIZE

\* C10: after load(P) of a program that fits, memory[0x8000 + i] = P[i] for
\* every i, every other cell and every register is as before, and pc is
\* 0x8000.
C10_LoadCopies ==
    (last = "load" /\ Fits(program)) =>
        /\ \A i \in 0..(Len(program) - 1) :
               Cell(memory, PROGRAM_START + i) = program[i + 1]
        /\ \A a \in (DOMAIN memory) \cup (DOMAIN prev.memory) :
               (a < PROGRAM_START \/ a >= PROGRAM_START + Len(program)) =>
                   Cell(memory, a) = Cell(prev.memory, a)
        /\ registers = prev.registers
        /\ pc = PROGRAM_START
        /\ phase = "idle"

\* C10's case: a load over an earlier program after its run, with pc past
\* 0x8000, a non-zero cell under the new program's zero byte, a cell of the
\* old program beyond the new one, and the key status cell set.
C10_Witness ==
    /\ last = "load" /\ Fits(program)
    /\ prev.pc > PROGRAM_START
    /\ Cell(prev.memory, PROGRAM_START + 2) # 0
    /\ Cell(memory, PROGRAM_START + 2) = 0
    /\ Cell(memory, PROGRAM_START + 3) # 0
    /\ Cell(memory, KEY_STATUS_ADDR) # 0
    /\ registers[0] # 0

\* the outcome of a load that reported its program as too large; the program
\* has no such outcome
ProgramTooLarge == "rejected"

\* C11 (as claimed): a load of a program longer than 65535 - 0x8000 bytes is
\* rejected with the reported error ProgramTooLarge, an outcome of load and
\* not a crash, and nothing is written at or past address 65535.
C11_TooLargeRejected ==
    (last = "load" /\ ~Fits(program)) =>
        /\ phase = ProgramTooLarge
        /\ panic = NoPanic
        /\ \A a \in DOMAIN memory : a < MEM_SIZE

\* C12: in every iteration render comes first, then update_keys, then the
\* fetch, each once: before the poll one more render than fetches, before the
\* fetch one more render and one more poll than fetches, and after the fetch
\* (also of HALT, and also when the instruction failed) as many renders and
\* polls as fetches.
C12_AdapterOncePerIteration ==
    /\ (phase = "update_keys") =>
           (last = "render" /\ renders = fetches + 1 /\ polls = fetches)
    /\ (phase = "fetch") =>
           (last = "update_keys" /\ renders = fetches + 1 /\ polls = fetches + 1)
    /\ (last = "step") => (renders = fetches /\ polls = fetches)

\* C12's case: the second iteration's fetch was a HALT, after two renders and
\* two polls.
C12_Witness ==
    /\ last = "step" /\ opcode = 0 /\ phase = "returned"
    /\ fetches = 2 /\ renders = 2 /\ polls = 2

AllRegistersValid(ks) ==
    \A k \in ks : Operand(k) \in 0..(NUM_REGISTERS - 1)

\* C13: ADD_REG, SUB_REG, ADD_IMM and SUB_IMM with valid register operands
\* leave in dest the sum or difference modulo 256 of the values before the
\* instruction, also when dest is one of the operands, and the run goes on.
C13_ArithmeticWraps ==
    /\ (Stepped /\ opcode \in {82, 83} /\ prev.pc + 3 < MEM_SIZE
           /\ AllRegistersValid({1, 2, 3})) =>
           /\ phase = "render"
           /\ registers[Operand(3)] =
                  IF opcode = 82
                  THEN (prev.registers[Operand(1)] + prev.registers[Operand(2)]) % 256
                  ELSE (prev.registers[Operand(1)] - prev.registers[Operand(2)] + 256) % 256
    /\ (Stepped /\ opcode \in {84, 85} /\ prev.pc + 3 < MEM_SIZE
           /\ AllRegistersValid({1, 3})) =>
           /\ phase = "render"
           /\ registers[Operand(3)] =
                  IF opcode = 84
                  THEN (prev.registers[Operand(1)] + Operand(2)) % 256
                  ELSE (prev.registers[Operand(1)] - Operand(2) + 256) % 256

\* C13's case: ADD_IMM of 5 to a register holding 255, with dest the same
\* register, left 4.
C13_Witness ==
    /\ Stepped /\ opcode = 84
    /\ Operand(1) \in 0..3 /\ Operand(3) = Operand(1) /\ Operand(2) = 5
    /\ prev.registers[Operand(1)] = 255
    /\ registers[Operand(3)] = 4
    /\ phase = "render"

\* C14: LOAD_IMMEDIATE(r, v) with r in 0..3 leaves register r = v, the other
\* registers and the memory as they were, and pc three past the opcode.
C14_LoadImmediate ==
    (Stepped /\ opcode = 16 /\ prev.pc + 2 < MEM_SIZE
        /\ AllRegistersValid({1})) =>
        /\ registers = [prev.registers EXCEPT ![Operand(1)] = Operand(2)]
        /\ memory = prev.memory
        /\ pc = prev.pc + 3
        /\ phase = "render"

\* C14's case: 255 was loaded into register 3, which held 100.
C14_Witness ==
    /\ Stepped /\ opcode = 16 /\ Operand(1) = 3 /\ Operand(2) = 255
    /\ prev.registers[3] = 100
    /\ registers[3] = 255

\* C15: LOAD_REGISTER(dest, src) with both in 0..3 sets register dest to the
\* value register src had and changes no other register; with dest = src the
\* register file is unchanged.
C15_LoadRegister ==
    (Stepped /\ opcode = 17 /\ prev.pc + 2 < MEM_SIZE
        /\ AllRegistersValid({1, 2})) =>
        /\ registers = [prev.registers EXCEPT ![Operand(1)] = prev.registers[Operand(2)]]
        /\ (Operand(1) = Operand(2) => registers = prev.registers)
        /\ phase = "render"

\* C15's case: register 1 (5) was copied into register 2 (100).
C15_Witness ==
    /\ Stepped /\ opcode = 17 /\ Operand(1) = 2 /\ Operand(2) = 1
    /\ prev.registers[1] = 5 /\ prev.registers[2] = 100
    /\ registers[2] = 5 /\ registers[1] = 5

\* the address operand at places k and k + 1, first byte most significant
AddressOperand(k) == Operand(k) * 256 + Operand(k + 1)

\* the program that stores register 2 (7) to 0x00AB and loads it back into
\* register 3
RoundTripProgram == <<16, 2, 7,  32, 0, 171, 2,  18, 3, 0, 171,  0>>

\* C16: LOAD_MEMORY (dest, hi, lo) sets register dest to memory[hi*256 + lo]
\* and STORE_MEMORY (hi, lo, src) sets memory[hi*256 + lo] to register src,
\* for an address within memory; and the run of a store followed by a load of
\* the same address bytes ends with the loaded register equal to the stored.
C16_BigEndianAddress ==
    /\ (Stepped /\ opcode = 18 /\ prev.pc + 3 < MEM_SIZE
           /\ AllRegistersValid({1}) /\ AddressOperand(2) < MEM_SIZE) =>
           /\ phase = "render"
           /\ registers = [prev.registers EXCEPT
                  ![Operand(1)] = Cell(prev.memory, AddressOperand(2))]
    /\ (Stepped /\ opcode = 32 /\ prev.pc + 3 < MEM_SIZE
           /\ AllRegistersValid({3}) /\ AddressOperand(1) < MEM_SIZE) =>
           /\ phase = "render"
           /\ memory = Put(prev.memory, AddressOperand(1), prev.registers[Operand(3)])
    /\ (program = RoundTripProgram /\ runs = 1 /\ phase = "returned") =>
           (registers[3] = registers[2] /\ registers[3] = 7)

\* C16's case: the store to 0x00AB and the load from it have run, and cell
\* 0x00AB (not 0xAB00) holds the stored byte.
C16_Witness ==
    /\ program = RoundTripProgram /\ runs = 1 /\ phase = "returned"
    /\ Cell(memory, 171) = 7
    /\ Cell(memory, 43776) = 0
    /\ registers[3] = 7

\* the result of the compare executed last, from the values at the fetch
CompareResult ==
    CASE opcode = 48 -> prev.registers[Operand(1)] = prev.registers[Operand(2)]
      [] opcode = 49 -> prev.registers[Operand(1)] = Operand(2)
      [] opcode = 50 -> prev.registers[Operand(1)] > prev.registers[Operand(2)]
      [] opcode = 51 -> prev.registers[Operand(1)] < prev.registers[Operand(2)]

WritesRegister == {16, 17, 18, 48, 49, 50, 51, 80, 81, 82, 83, 84, 85}

DestField(op) == IF op \in {16, 17, 18, 80, 81} THEN 1 ELSE 3

ChangedRegisters == {r \in 0..(NUM_REGISTERS - 1) : registers[r] # prev.registers[r]}

ChangedCells ==
    {a \in (DOMAIN memory) \cup (DOMAIN prev.memory) :
        Cell(memory, a) # Cell(prev.memory, a)}

\* C18 (as claimed): render and update_keys change no register, not pc, and
\* no cell but 0x0100; only STORE_MEMORY changes memory, and exactly the
\* addressed cell; every completed instruction other than STORE_MEMORY, NOP,
\* HALT and JUMP_IF changes exactly one register, its dest, and no memory.
C18_ExactlyOneChanged ==
    /\ (last \in {"render", "update_keys"}) =>
           /\ registers = prev.registers
           /\ pc = prev.pc
           /\ ChangedCells \subseteq {KEY_STATUS_ADDR}
    /\ (Stepped /\ opcode # 32) => memory = prev.memory
    /\ (Stepped /\ opcode = 32 /\ phase = "render") =>
           ChangedCells = {AddressOperand(1)}
    /\ (Stepped /\ opcode \in WritesRegister /\ phase = "render") =>
           ChangedRegisters = {Operand(DestField(opcode))}

\* C18 (amended): render and update_keys change no register, not pc, and no
\* cell but 0x0100; only STORE_MEMORY changes memory, and no cell but the
\* addressed one; STORE_MEMORY, NOP, HALT and JUMP_IF change no register, and
\* every other instruction changes no register but its dest.
C18_Frame ==
    /\ (last \in {"render", "update_keys"}) =>
           /\ registers = prev.registers
           /\ pc = prev.pc
           /\ ChangedCells \subseteq {KEY_STATUS_ADDR}
    /\ (Stepped /\ opcode # 32) => memory = prev.memory
    /\ (Stepped /\ opcode = 32) =>
           /\ ChangedCells \subseteq {AddressOperand(1)}
           /\ registers = prev.registers
    /\ (Stepped /\ opcode \in {0, 255, 64}) => registers = prev.registers
    /\ (Stepped /\ opcode \in WritesRegister) =>
           ChangedRegisters \subseteq {Operand(DestField(opcode))}

\* C18's case: a poll changed the key status cell in an iteration after a
\* STORE_MEMORY had changed another cell.
C18_Witness ==
    /\ last = "update_keys"
    /\ ChangedCells = {KEY_STATUS_ADDR}
    /\ opcode = 32
    /\ Cell(memory, 171) # 0

\* the instruction set's table: the number of operand bytes
OperandBytes(op) ==
    CASE op \in {0, 255}  -> 0
      [] op \in {80, 81}  -> 1
      [] op \in {16, 17}  -> 2
      [] OTHER            -> 3

\* the instruction executed last was a JUMP_IF on a register holding 1
JumpTaken ==
    /\ opcode = 64
    /\ Operand(1) \in 0..(NUM_REGISTERS - 1)
    /\ prev.registers[Operand(1)] = 1

\* C19: after an instruction that did not fail and was not a taken JUMP_IF,
\* pc is the opcode's address + 1 + the number of its operand bytes; after the
\* return of HALT it is the address of the HALT byte + 1.
C19_PcAdvance ==
    (Stepped /\ opcode \in KnownOpcodes /\ phase # "panicked" /\ ~JumpTaken) =>
        pc = prev.pc + 1 + OperandBytes(opcode)

\* C19's case: a STORE_MEMORY, whose address operand comes first, left pc
\* four past its opcode.
C19_Witness ==
    /\ Stepped /\ opcode = 32 /\ phase = "render"
    /\ pc = prev.pc + 4
    /\ memory # prev.memory

\* a run of the program of main.rs is under way or over, and Escape has not
\* ended the process
DemoRun ==
    /\ program = DemoProgram
    /\ last # "load"
    /\ phase # "exited"

\* C20: the run of the program of main.rs, with Escape never down, never ends
\* (no return, no panic): each pass sets register 1 to 1 and its JUMP_IF goes
\* back to 0x8000, so pc never gets past the JUMP_IF and the HALT byte is
\* never fetched; from the second pass on memory[0x0200] and memory[0x05FF]
\* hold 0xFF.
C20_DemoNeverHalts ==
    DemoRun =>
        /\ phase \in {"render", "update_keys", "fetch"}
        /\ panic = NoPanic
        /\ pc >= PROGRAM_START /\ pc <= PROGRAM_START + 16
        /\ (last = "step" /\ opcode = 64) =>
               (registers[1] = 1 /\ pc = PROGRAM_START)
        /\ (fetches >= 7) =>
               (Cell(memory, 512) = 255 /\ Cell(memory, 1535) = 255)

\* C20's case: the JUMP_IF of the second pass has gone back to 0x8000.
C20_Witness ==
    /\ DemoRun
    /\ fetches = 14
    /\ last = "step" /\ opcode = 64
    /\ pc = PROGRAM_START
    /\ Cell(memory, 512) = 255 /\ Cell(memory, 1535) = 255
    /\ buffer # EmptyCells

\* run has been called and has neither returned nor panicked
Running == phase \in {"render", "update_keys", "fetch"}

\* run has returned (HALT) or the thread has panicked
Terminal == phase \in {"returned", "panicked"}

\* C21: after an instruction that was fetched and was not a taken JUMP_IF, pc
\* is greater than it was at the fetch; and in a behaviour where no JUMP_IF is
\* ever taken and Escape never ends the process, a run that is under way
\* returns or panics.
C21_JumpFreeRunsTerminate ==
    /\ []((Stepped /\ ~JumpTaken) => pc > prev.pc)
    /\ ([](~(Stepped /\ JumpTaken)) /\ [](phase # "exited")) =>
           (Running ~> Terminal)

\* C21's case: a program that does not end in HALT and took no jump has run
\* past its last byte, and the zero byte fetched there has made run return.
C21_Witness ==
    /\ phase = "returned"
    /\ Len(program) > 0
    /\ program[Len(program)] # 0
    /\ \A i \in 1..Len(program) : program[i] # 64
    /\ Stepped
    /\ opcode = 0
    /\ prev.pc >= PROGRAM_START + Len(program)
    /\ fetches >= 3

====
